---- MODULE Spec2Model ----
(***************************************************************************)
(* Model of the off-chain compression pipeline of the PoD Protocol Python  *)
(* SDK: ZKCompressionService (services/zk_compression.py) batching         *)
(* compressed channel messages on top of the mock IPFSService              *)
(* (services/ipfs.py).                                                     *)
(*                                                                         *)
(* The service runs on a single asyncio event loop.  A coroutine only      *)
(* gives up control at an await that really suspends; the only such point  *)
(* in the batching path is asyncio.sleep in _start_batch_timer.  Every     *)
(* action below is therefore one run of a coroutine between two            *)
(* suspension points.                                                      *)
(***************************************************************************)
EXTENDS Integers, Sequences, FiniteSets, TLC

\* ---------------------------------------------------------------- bounds
NumTasks == 2        \* concurrent caller tasks on the event loop
MaxRecords == 3      \* calls of compress_channel_message in one run
MaxM == 2            \* largest configured batch size
MaxCleanups == 1     \* calls of cleanup() that find records pending
MaxNow == 2          \* latest clock reading when the store is called directly
MaxLeaves == 2       \* longest list handed to the Merkle and batch methods directly

\* ZKCompressionConfig.batch_timeout (milliseconds)
BatchTimeout == 5000

Tasks == 1..NumTasks

\* Message contents passed by callers.
Contents == {"a", "b"}

\* A Python None / Optional value is a sequence of length 0 or 1.
None == <<>>
Some(x) == <<x>>

\* The caller passes `channel` either as a plain string or as a Pubkey
\* object (the declared type); only the former is accepted by json.dumps.
ChannelKinds == {"str", "pubkey"}

\* The caller passes `content` either as a str (the declared type) or as
\* bytes; bytes are rejected by json.dumps and have no .encode().
ContentKinds == {"str", "bytes"}

\* IPFSService handed to the constructor: absent, enabled, or with
\* config.disabled set.
IpfsModes == {"none", "enabled", "disabled"}

VARIABLES
    config,             \* ZKCompressionConfig + injected ipfs service
    batch_queue,        \* self.batch_queue
    batch_timer,        \* self.batch_timer
    last_batch_result,  \* self.last_batch_result
    storage,            \* IPFSService._storage : key -> bytes
    now,                \* int(time.time() * 1000); time passes while tasks sleep
    pc,                 \* per task: "idle" or "sleeping" (in asyncio.sleep)
    cur,                \* per task: id of the record its pending call made
    timers,             \* tasks suspended in asyncio.sleep, in arming order
    wake,               \* per task: the time its asyncio.sleep ends
    handles,            \* per record id: what its call did / returned
    emitted,            \* batch results of every successful _process_batch
    attempts,           \* every call of batch_compress_messages by _process_batch
    stats,              \* counters: calls of compress_channel_message, calls that
                        \* raised to their caller, messages appended, timer
                        \* firings, cleanups that found records pending
    last_call,          \* content kind passed to the latest compress_channel_message
    last_op,            \* latest direct call of an IPFSService method and its outcome
    first_put           \* key -> bytes written by the first successful put of the key

vars == <<config, batch_queue, batch_timer, last_batch_result, storage, now,
          pc, cur, timers, wake, handles, emitted, attempts, stats, last_call,
          last_op, first_put>>

\* ---------------------------------------------------------------- hashing
\* SHA-256 digests are modelled as collision-free integer codes; the three
\* hash constructions of the code land in disjoint ranges.  Hex strings are
\* compared (sorted) as these integers.

\* Order of the digests of the contents: sha256("a") = ca97..., sha256("b") =
\* 3e23...; with the 0xff seed and byte 0 zeroed, 00d0... and 0010....
DigestRank(c) == IF c = "a" THEN 2 ELSE 1

\* ZKCompressionService._create_local_hash: sha256(utf8(data))
CreateLocalHash(c) == 100 + DigestRank(c)

\* IPFSService.create_content_hash: sha256(utf8(content) ++ 0xff), byte 0 zeroed
CreateContentHash(c) == 200 + DigestRank(c)

\* hashlib.sha256(utf8(c) ++ 0xff).digest() for the inputs of the model, as
\* the 32 bytes SHA-256 gives for them
Sha256Seeded(c) ==
    IF c = "a" THEN
        <<141, 208, 107, 90, 182, 181, 148, 37,
          126, 65, 183, 216, 221, 68, 10, 64,
          98, 237, 220, 103, 253, 171, 92, 19,
          180, 220, 48, 1, 118, 137, 111, 110>>
    ELSE IF c = "b" THEN
        <<125, 16, 22, 184, 202, 22, 65, 82,
          8, 29, 20, 107, 238, 226, 210, 131,
          69, 134, 134, 69, 155, 233, 71, 82,
          74, 114, 31, 136, 226, 85, 200, 142>>
    ELSE
        <<168, 16, 10, 230, 170, 25, 64, 208,
          182, 99, 187, 49, 205, 70, 97, 66,
          235, 189, 189, 81, 135, 19, 27, 146,
          217, 56, 24, 152, 120, 50, 235, 137>>

\* strings handed to create_content_hash directly: the contents and ""
HashInputs == Contents \cup {""}

\* a digest zeroed at its last byte instead of its first
CreateContentHashBytes_ZeroLast(c) ==
    [i \in 1..Len(Sha256Seeded(c)) |->
        IF i = Len(Sha256Seeded(c)) THEN 0 ELSE Sha256Seeded(c)[i]]

\* IPFSService.create_content_hash, byte by byte: field_sized_hash[0] = 0 on
\* the digest (the returned hex string spells these bytes)
CreateContentHashBytes(c) ==
    [i \in 1..Len(Sha256Seeded(c)) |-> IF i = 1 THEN 0 ELSE Sha256Seeded(c)[i]]

\* ChannelMessageContent(content, [], {}) with timestamp = now, as the dict
\* that store_message_content hands to store_json
MessageContentJson(c, ts) == [content |-> c, timestamp |-> ts]

\* the keys of that dict in the order sort_keys=True writes them
SortedKeys == <<"content", "timestamp">>

\* json.dumps(data, sort_keys=True).encode('utf-8'): the JSON text as its
\* sequence of key/value members
JsonDumps(data) ==
    [json_text |-> [i \in 1..Len(SortedKeys) |->
                       <<SortedKeys[i], data[SortedKeys[i]]>>]]

\* a parser that keeps only the first member of an object
JsonLoads_FirstMember(bytes) ==
    [k \in {bytes.json_text[1][1]} |-> bytes.json_text[1][2]]

\* json.loads(json_bytes.decode('utf-8')): the dict of the members
JsonLoads(bytes) ==
    [k \in {bytes.json_text[i][1] : i \in 1..Len(bytes.json_text)} |->
        bytes.json_text[CHOOSE i \in 1..Len(bytes.json_text) :
                           bytes.json_text[i][1] = k][2]]

\* a key derived from the content field only
StoreJsonKey_ContentOnly(json) == 300 + DigestRank(json.content)

\* IPFSService.store_json: key = sha256(json.dumps(data, sort_keys=True))
StoreJsonKey(json) == 300 + json.timestamp * 3 + DigestRank(json.content)

\* a store whose failures never reach compress_channel_message
StoreRaises_Swallowed(cfg, ck) == FALSE

\* store_message_content / store_json raise when the service is disabled or
\* json.dumps rejects the content
StoreRaises(cfg, ck) == cfg.ipfs = "disabled" \/ ck = "bytes"

\* without a store, _create_local_hash raises on content.encode for bytes
LocalHashRaises(ck) == ck = "bytes"

\* self._storage[content_hash] = json_bytes
StorePut(st, json) ==
    [k \in DOMAIN st \cup {StoreJsonKey(json)} |->
        IF k = StoreJsonKey(json) THEN JsonDumps(json) ELSE st[k]]

\* The bytes the store holds are modelled by what they encode: the JSON value
\* for json_bytes, [text |-> c] for the UTF-8 bytes of the plain text c.

\* store_file: file_bytes = data.encode('utf-8') for a str, data for bytes
FileBytes(dk, c) == [text |-> c]

\* store_file: key = sha256(file_bytes), the digest _create_local_hash gives
StoreFileKey(c) == CreateLocalHash(c)

\* self._storage[content_hash] = file_bytes
StorePutFile(st, dk, c) ==
    [k \in DOMAIN st \cup {StoreFileKey(c)} |->
        IF k = StoreFileKey(c) THEN FileBytes(dk, c) ELSE st[k]]

\* history: the bytes of the first successful put under each key
RecordFirstPut(fp, k, bytes) ==
    IF k \in DOMAIN fp THEN fp
    ELSE [x \in DOMAIN fp \cup {k} |-> IF x = k THEN bytes ELSE fp[x]]

\* store_json: how the call ends ("none": it returns)
StoreJsonError(cfg, ck) ==
    IF cfg.ipfs = "disabled" THEN "disabled"
    ELSE IF ck = "bytes" THEN "type"
    ELSE "none"

\* a store_file that does not read the disabled flag
StoreFileError_IgnoreFlag(cfg) == "none"

\* store_file
StoreFileError(cfg) == IF cfg.ipfs = "disabled" THEN "disabled" ELSE "none"

\* retrieve_json: disabled, key absent, or json.loads rejecting bytes that
\* are not a JSON text
RetrieveJsonError(cfg, st, k) ==
    IF cfg.ipfs = "disabled" THEN "disabled"
    ELSE IF k \notin DOMAIN st THEN "not_found"
    ELSE IF "text" \in DOMAIN st[k] THEN "decode"
    ELSE "none"

\* retrieve_file returns the stored bytes object
RetrieveFileResult(bytes) ==
    IF "text" \in DOMAIN bytes THEN [kind |-> "bytes", content |-> bytes.text]
    ELSE [kind |-> "bytes", json_text |-> bytes.json_text]

\* retrieve_file
RetrieveFileError(cfg, st, k) ==
    IF cfg.ipfs = "disabled" THEN "disabled"
    ELSE IF k \notin DOMAIN st THEN "not_found"
    ELSE "none"

\* a pin that does not look the key up
PinError_NoLookup(cfg, st, k) ==
    IF cfg.ipfs = "disabled" THEN "disabled" ELSE "none"

\* pin_content and unpin_content
PinError(cfg, st, k) ==
    IF cfg.ipfs = "disabled" THEN "disabled"
    ELSE IF k \notin DOMAIN st THEN "not_found"
    ELSE "none"

\* get_node_info: raises when disabled, else reports len(self._storage)
NodeInfoOutcome(cfg, st) ==
    IF cfg.ipfs = "disabled" THEN [error |-> "disabled", result |-> None]
    ELSE [error |-> "none",
          result |-> Some([storage_items |-> Cardinality(DOMAIN st)])]

\* an existence check that raises on a disabled store
ContentExistsOutcome_Raising(cfg, st, k) ==
    IF cfg.ipfs = "disabled" THEN [error |-> "disabled", result |-> None]
    ELSE [error |-> "none", result |-> Some(k \in DOMAIN st)]

\* content_exists: False when disabled, else `hash in self._storage`
ContentExistsOutcome(cfg, st, k) ==
    [error |-> "none",
     result |-> Some(IF cfg.ipfs = "disabled" THEN FALSE ELSE k \in DOMAIN st)]

\* ---------------------------------------------------------------- records
\* a message whose ipfs_hash is its content hash, whatever key the store used
NewMessage_RefIsContentHash(cfg, id, ch, c, ts) ==
    [id |-> id,
     channel |-> ch,
     content_hash |-> IF cfg.ipfs = "none" THEN CreateLocalHash(c)
                      ELSE CreateContentHash(c),
     ipfs_hash |-> IF cfg.ipfs = "none" THEN CreateLocalHash(c)
                   ELSE CreateContentHash(c),
     created_at |-> ts]

\* CompressedChannelMessage built in compress_channel_message.  `id` is the
\* identity of the Python object (two messages with equal fields are still
\* two objects).
NewMessage(cfg, id, ch, c, ts) ==
    [id |-> id,
     channel |-> ch,
     content_hash |-> IF cfg.ipfs = "none" THEN CreateLocalHash(c)
                      ELSE CreateContentHash(c),
     ipfs_hash |-> IF cfg.ipfs = "none" THEN CreateLocalHash(c)
                   ELSE StoreJsonKey(MessageContentJson(c, ts)),
     created_at |-> ts]

\* CompressedAccount(hash=message.content_hash, data=message.__dict__)
CompressedAccountOf(m) == [hash |-> m.content_hash, data |-> m]

\* json.dumps accepts the message dict only if its fields are JSON types
JsonSerializable(m) == m.channel = "str"

\* sorted(hashes): insertion sort on the integer codes
RECURSIVE Insert(_, _)
Insert(h, s) ==
    IF s = <<>> THEN <<h>>
    ELSE IF h <= Head(s) THEN <<h>> \o s
    ELSE <<Head(s)>> \o Insert(h, Tail(s))

RECURSIVE Sorted(_)
Sorted(s) == IF s = <<>> THEN <<>> ELSE Insert(Head(s), Sorted(Tail(s)))

\* _calculate_mock_merkle_root: "0"*64 for no hashes, else
\* sha256("".join(sorted(hashes)))
CalculateMockMerkleRoot(hashes) ==
    IF hashes = <<>> THEN [zero |-> TRUE]
    ELSE [sha256_of |-> Sorted(hashes)]

\* batch_compress_messages raises iff json.dumps of the account data raises
BatchCompressRaises(messages) ==
    \E i \in 1..Len(messages) : ~JsonSerializable(messages[i])

\* batch_compress_messages, when it does not raise
BatchCompressMessages(messages) ==
    LET accounts == [i \in 1..Len(messages) |-> CompressedAccountOf(messages[i])]
    IN [signature |-> [sha256_of |-> [i \in 1..Len(accounts) |-> accounts[i].data]],
        compressed_accounts |-> accounts,
        merkle_root |-> CalculateMockMerkleRoot(
                            [i \in 1..Len(accounts) |-> accounts[i].hash])]

\* max_batch_size = self.config.batch_size or self.config.max_batch_size
EffectiveMaxBatchSize(cfg) ==
    IF cfg.batch_size # 0 THEN cfg.batch_size ELSE cfg.max_batch_size

\* a queue that puts the newest message first
AddToQueue_Prepend(q, m) == <<m>> \o q

\* self.batch_queue.append(message)
AddToQueue(q, m) == Append(q, m)

\* a flush that builds its batch from the queue as it was before the newest
\* append, and then clears the whole queue
ProcessBatch_DropNewest(q, timer, last, ts) ==
    IF q = <<>> THEN
        [queue |-> q, timer |-> timer, last |-> last,
         emit |-> <<>>, attempt |-> <<>>]
    ELSE
        LET batch_result == BatchCompressMessages(SubSeq(q, 1, Len(q) - 1))
        IN [queue |-> <<>>, timer |-> None,
            last |-> Some([signature |-> batch_result.signature,
                           compressed_accounts |-> batch_result.compressed_accounts,
                           timestamp |-> ts]),
            emit |-> <<batch_result>>,
            attempt |-> <<[messages |-> q, ok |-> TRUE]>>]

\* a flush without the early return on an empty queue
ProcessBatch_NoEmptyCheck(q, timer, last, ts) ==
    LET batch_result == BatchCompressMessages(q)
    IN [queue |-> <<>>, timer |-> None,
        last |-> Some([signature |-> batch_result.signature,
                       compressed_accounts |-> batch_result.compressed_accounts,
                       timestamp |-> ts]),
        emit |-> <<batch_result>>,
        attempt |-> <<[messages |-> q, ok |-> TRUE]>>]

\* _process_batch on queue q: the values of batch_queue, batch_timer and
\* last_batch_result it leaves, and what it appends to the two logs.
\*   - empty queue: return at once;
\*   - batch_compress_messages raises: the except clause prints and returns,
\*     nothing is assigned;
\*   - otherwise last_batch_result is set, the queue cleared, batch_timer = None.
ProcessBatch(q, timer, last, ts) ==
    IF q = <<>> THEN
        [queue |-> q, timer |-> timer, last |-> last,
         emit |-> <<>>, attempt |-> <<>>]
    ELSE IF BatchCompressRaises(q) THEN
        [queue |-> q, timer |-> timer, last |-> last,
         emit |-> <<>>, attempt |-> <<[messages |-> q, ok |-> FALSE]>>]
    ELSE
        LET batch_result == BatchCompressMessages(q)
        IN [queue |-> <<>>, timer |-> None,
            last |-> Some([signature |-> batch_result.signature,
                           compressed_accounts |-> batch_result.compressed_accounts,
                           timestamp |-> ts]),
            emit |-> <<batch_result>>,
            attempt |-> <<[messages |-> q, ok |-> TRUE]>>]

\* Is the message object with identity id in queue q?
InQueue(q, id) == \E i \in 1..Len(q) : q[i].id = id

\* ---------------------------------------------------------------- state
\* Configurations a service is constructed with.  batch_size = 0 stands for
\* None (both are falsy in `batch_size or max_batch_size`); one family of
\* configurations overrides max_batch_size by batch_size = 1.
Configs ==
    [max_batch_size : 1..MaxM, batch_size : {0},
     enable_batching : BOOLEAN, ipfs : IpfsModes]
    \cup [max_batch_size : {MaxM}, batch_size : {1},
          enable_batching : BOOLEAN, ipfs : IpfsModes]

Init ==
    /\ config \in Configs
    /\ batch_queue = <<>>
    /\ batch_timer = None
    /\ last_batch_result = None
    /\ storage = <<>>
    /\ now = 1
    /\ pc = [t \in Tasks |-> "idle"]
    /\ cur = [t \in Tasks |-> 0]
    /\ timers = <<>>
    /\ wake = [t \in Tasks |-> 0]
    /\ handles = <<>>
    /\ emitted = <<>>
    /\ attempts = <<>>
    /\ stats = [calls |-> 0, raised |-> 0, enqueued |-> 0, fired |-> 0,
                cleanups |-> 0]
    /\ last_call = None
    /\ last_op = None
    /\ first_put = <<>>

\* ---------------------------------------------------------------- actions
\* compress_channel_message up to its first suspension (or its return):
\* store the content, build the message, _add_to_batch.  Caller tasks are
\* interchangeable, so the call is made by the first idle one.
CompressChannelMessage(t, ch, ck, c) ==
    /\ pc[t] = "idle"
    /\ \A u \in Tasks : pc[u] = "idle" => t <= u
    /\ stats.calls < MaxRecords
    /\ last_call' = Some(ck)
    /\ UNCHANGED <<config, now, last_op>>
    /\ IF \/ config.ipfs # "none" /\ StoreRaises(config, ck)
          \/ config.ipfs = "none" /\ LocalHashRaises(ck) THEN
          \* the exception is re-raised to the caller by the except clause
          /\ stats' = [stats EXCEPT !.calls = @ + 1, !.raised = @ + 1]
          /\ UNCHANGED <<batch_queue, batch_timer, last_batch_result, storage,
                         pc, cur, timers, wake, handles, emitted, attempts,
                         first_put>>
       ELSE
          LET id == Len(handles) + 1
              m == NewMessage(config, id, ch, c, now)
              q1 == AddToQueue(batch_queue, m)
              r == ProcessBatch(q1, batch_timer, last_batch_result, now)
          IN
          /\ storage' = IF config.ipfs = "none" THEN storage
                        ELSE StorePut(storage, MessageContentJson(c, now))
          /\ first_put' = IF config.ipfs = "none" THEN first_put
                          ELSE RecordFirstPut(first_put,
                                   StoreJsonKey(MessageContentJson(c, now)),
                                   JsonDumps(MessageContentJson(c, now)))
          /\ IF ~config.enable_batching THEN
                \* _process_single_compression: pass
                /\ stats' = [stats EXCEPT !.calls = @ + 1]
                /\ handles' = Append(handles,
                       [status |-> "returned", path |-> "single",
                        pending_on_return |-> FALSE])
                /\ UNCHANGED <<batch_queue, batch_timer, last_batch_result,
                               pc, cur, timers, wake, emitted, attempts>>
             ELSE IF Len(q1) >= EffectiveMaxBatchSize(config) THEN
                \* batch is full: await self._process_batch()
                /\ batch_queue' = r.queue
                /\ batch_timer' = r.timer
                /\ last_batch_result' = r.last
                /\ emitted' = emitted \o r.emit
                /\ attempts' = attempts \o r.attempt
                /\ stats' = [stats EXCEPT !.calls = @ + 1, !.enqueued = @ + 1]
                /\ handles' = Append(handles,
                       [status |-> "returned", path |-> "size",
                        pending_on_return |-> InQueue(r.queue, id)])
                /\ UNCHANGED <<pc, cur, timers, wake>>
             ELSE IF batch_timer = None THEN
                \* await self._start_batch_timer(): suspended in asyncio.sleep
                /\ batch_queue' = q1
                /\ pc' = [pc EXCEPT ![t] = "sleeping"]
                /\ cur' = [cur EXCEPT ![t] = id]
                /\ timers' = Append(timers, t)
                /\ wake' = [wake EXCEPT ![t] = now + BatchTimeout]
                /\ stats' = [stats EXCEPT !.calls = @ + 1, !.enqueued = @ + 1]
                /\ handles' = Append(handles,
                       [status |-> "sleeping", path |-> "timer",
                        pending_on_return |-> FALSE])
                /\ UNCHANGED <<batch_timer, last_batch_result, emitted, attempts>>
             ELSE
                \* a timer is recorded: return with the message queued
                /\ batch_queue' = q1
                /\ stats' = [stats EXCEPT !.calls = @ + 1, !.enqueued = @ + 1]
                /\ handles' = Append(handles,
                       [status |-> "returned", path |-> "joined",
                        pending_on_return |-> TRUE])
                /\ UNCHANGED <<batch_timer, last_batch_result, pc, cur, timers,
                               wake, emitted, attempts>>

\* asyncio.sleep(batch_timeout / 1000) of the oldest sleeper is over: the
\* rest of _start_batch_timer, then compress_channel_message returns.
\* All sleeps last batch_timeout, so they end in the order they began; the
\* clock has reached the sleeper's deadline when it resumes.
TimerFire(t) ==
    /\ timers # <<>>
    /\ t = Head(timers)
    /\ pc[t] = "sleeping"
    /\ now' = IF wake[t] > now THEN wake[t] ELSE now
    /\ LET r == IF batch_queue # <<>>
                THEN ProcessBatch(batch_queue, batch_timer, last_batch_result, now')
                ELSE ProcessBatch(<<>>, batch_timer, last_batch_result, now')
       IN /\ batch_queue' = r.queue
          /\ batch_timer' = r.timer
          /\ last_batch_result' = r.last
          /\ emitted' = emitted \o r.emit
          /\ attempts' = attempts \o r.attempt
          /\ handles' = [handles EXCEPT ![cur[t]] =
                 [@ EXCEPT !.status = "returned",
                           !.pending_on_return = InQueue(r.queue, cur[t])]]
    /\ timers' = Tail(timers)
    /\ pc' = [pc EXCEPT ![t] = "idle"]
    /\ cur' = [cur EXCEPT ![t] = 0]
    /\ wake' = [wake EXCEPT ![t] = 0]
    /\ stats' = [stats EXCEPT !.fired = @ + 1]
    /\ UNCHANGED <<config, storage, last_call, last_op, first_put>>

\* ZKCompressionService.cleanup
Cleanup ==
    /\ stats.cleanups < MaxCleanups
    /\ LET r == IF batch_queue # <<>>
                THEN ProcessBatch(batch_queue, batch_timer, last_batch_result, now)
                ELSE ProcessBatch(<<>>, batch_timer, last_batch_result, now)
       IN /\ batch_queue' = r.queue
          /\ batch_timer' = r.timer
          /\ last_batch_result' = r.last
          /\ emitted' = emitted \o r.emit
          /\ attempts' = attempts \o r.attempt
    /\ stats' = IF batch_queue # <<>>
                THEN [stats EXCEPT !.cleanups = @ + 1]
                ELSE stats
    /\ UNCHANGED <<config, storage, now, pc, cur, timers, wake, handles, last_call,
                   last_op, first_put>>

Next ==
    \/ \E t \in Tasks, ch \in ChannelKinds, ck \in ContentKinds, c \in Contents :
           CompressChannelMessage(t, ch, ck, c)
    \/ \E t \in Tasks : TimerFire(t)
    \/ Cleanup

Spec == Init /\ [][Next]_vars

\* ---------------------------------------------------------------- store
\* Direct calls of the IPFSService methods by a client, on a service that
\* exists (config.ipfs is "enabled" or "disabled").

\* keys a caller may present: of every storable payload, and the content
\* hashes, which are never storage keys
StoreKeys ==
    {StoreFileKey(c) : c \in Contents}
    \cup {StoreJsonKey(MessageContentJson(c, ts)) : c \in Contents, ts \in 1..MaxNow}
    \cup {CreateContentHash(c) : c \in Contents}

\* store_json(json), reached as operation op with argument arg; ck is the
\* Python type of the content field
PutJson(op, arg, ck, json) ==
    /\ config.ipfs # "none"
    /\ IF StoreJsonError(config, ck) = "none" THEN
          /\ storage' = StorePut(storage, json)
          /\ first_put' = RecordFirstPut(first_put, StoreJsonKey(json),
                                         JsonDumps(json))
          /\ last_op' = Some([op |-> op, arg |-> arg, error |-> "none",
                              result |-> Some(StoreJsonKey(json)),
                              existed |-> StoreJsonKey(json) \in DOMAIN storage])
       ELSE
          /\ last_op' = Some([op |-> op, arg |-> arg,
                              error |-> StoreJsonError(config, ck),
                              result |-> None, existed |-> FALSE])
          /\ UNCHANGED <<storage, first_put>>
    /\ UNCHANGED <<config, batch_queue, batch_timer, last_batch_result, now, pc,
                   cur, timers, wake, handles, emitted, attempts, stats, last_call>>

\* store_message_content(content): ChannelMessageContent stamps the clock
StoreMessageContent(ck, c) ==
    PutJson("store_message_content", [kind |-> ck, content |-> c], ck,
            MessageContentJson(c, now))

\* store_json(data) with a message-content dict whose timestamp the caller set
StoreJson(ck, c, ts) ==
    PutJson("store_json", [kind |-> ck, content |-> c, timestamp |-> ts], ck,
            MessageContentJson(c, ts))

\* store_file(data) with the text c passed as str or as bytes
StoreFile(dk, c) ==
    /\ config.ipfs # "none"
    /\ IF StoreFileError(config) = "none" THEN
          /\ storage' = StorePutFile(storage, dk, c)
          /\ first_put' = RecordFirstPut(first_put, StoreFileKey(c), FileBytes(dk, c))
          /\ last_op' = Some([op |-> "store_file",
                              arg |-> [kind |-> dk, content |-> c],
                              error |-> "none",
                              result |-> Some(StoreFileKey(c)),
                              existed |-> StoreFileKey(c) \in DOMAIN storage])
       ELSE
          /\ last_op' = Some([op |-> "store_file",
                              arg |-> [kind |-> dk, content |-> c],
                              error |-> StoreFileError(config),
                              result |-> None, existed |-> FALSE])
          /\ UNCHANGED <<storage, first_put>>
    /\ UNCHANGED <<config, batch_queue, batch_timer, last_batch_result, now, pc,
                   cur, timers, wake, handles, emitted, attempts, stats, last_call>>

\* a method that takes a key and does not assign to _storage
KeyOp(op, k, error, result) ==
    /\ config.ipfs # "none"
    /\ last_op' = Some([op |-> op, arg |-> k, error |-> error, result |-> result])
    /\ UNCHANGED <<config, batch_queue, batch_timer, last_batch_result, storage,
                   now, pc, cur, timers, wake, handles, emitted, attempts, stats,
                   last_call, first_put>>

\* retrieve_json(hash): json.loads of the stored bytes
RetrieveJson(k) ==
    KeyOp("retrieve_json", k, RetrieveJsonError(config, storage, k),
          IF RetrieveJsonError(config, storage, k) = "none"
          THEN Some(JsonLoads(storage[k])) ELSE None)

\* retrieve_file(hash): the stored bytes
RetrieveFile(k) ==
    KeyOp("retrieve_file", k, RetrieveFileError(config, storage, k),
          IF RetrieveFileError(config, storage, k) = "none"
          THEN Some(RetrieveFileResult(storage[k])) ELSE None)

\* pin_content(hash)
PinContent(k) == KeyOp("pin_content", k, PinError(config, storage, k), None)

\* unpin_content(hash)
UnpinContent(k) == KeyOp("unpin_content", k, PinError(config, storage, k), None)

\* content_exists(hash)
ContentExists(k) ==
    KeyOp("content_exists", k, ContentExistsOutcome(config, storage, k).error,
          ContentExistsOutcome(config, storage, k).result)

\* IPFSService.create_content_hash(content), a static method
CreateContentHashCall(c) ==
    KeyOp("create_content_hash", c, "none", Some(CreateContentHashBytes(c)))

\* get_node_info()
GetNodeInfo ==
    KeyOp("get_node_info", None, NodeInfoOutcome(config, storage).error,
          NodeInfoOutcome(config, storage).result)

\* a millisecond passes between two calls
ClockAdvance ==
    /\ now < MaxNow
    /\ now' = now + 1
    /\ UNCHANGED <<config, batch_queue, batch_timer, last_batch_result, storage,
                   pc, cur, timers, wake, handles, emitted, attempts, stats,
                   last_call, last_op, first_put>>

\* a service with an IPFSService injected; the batching options play no part
StoreInit ==
    /\ Init
    /\ config.ipfs # "none"
    /\ config.enable_batching
    /\ config.batch_size = 0
    /\ config.max_batch_size = MaxM

StoreNext ==
    \/ \E ck \in ContentKinds, c \in Contents : StoreMessageContent(ck, c)
    \/ \E ck \in ContentKinds, c \in Contents, ts \in 1..MaxNow : StoreJson(ck, c, ts)
    \/ \E dk \in ContentKinds, c \in Contents : StoreFile(dk, c)
    \/ \E k \in StoreKeys : RetrieveJson(k)
    \/ \E k \in StoreKeys : RetrieveFile(k)
    \/ \E k \in StoreKeys : PinContent(k)
    \/ \E k \in StoreKeys : UnpinContent(k)
    \/ \E k \in StoreKeys : ContentExists(k)
    \/ GetNodeInfo
    \/ \E c \in HashInputs : CreateContentHashCall(c)
    \/ ClockAdvance

StoreSpec == StoreInit /\ [][StoreNext]_vars

\* ---------------------------------------------------------------- merkle
\* Direct calls of the batch and proof methods of ZKCompressionService.
\* None of them assigns to the service's state.

\* hashes a caller may present as leaves
LeafHashes ==
    {CreateLocalHash(c) : c \in Contents} \cup {CreateContentHash(c) : c \in Contents}

\* lists of at most MaxLeaves leaves
LeafLists == UNION {[1..n -> LeafHashes] : n \in 0..MaxLeaves}

\* verify_compression_proof: `return True`
VerifyCompressionProofResult(proof, public_inputs) == TRUE

\* a call that returns or raises without touching the service's state
ServiceCall(op, arg, error, result) ==
    /\ last_op' = Some([op |-> op, arg |-> arg, error |-> error, result |-> result])
    /\ UNCHANGED <<config, batch_queue, batch_timer, last_batch_result, storage,
                   now, pc, cur, timers, wake, handles, emitted, attempts, stats,
                   last_call, first_put>>

\* _calculate_mock_merkle_root(hashes)
CalculateMockMerkleRootCall(hashes) ==
    ServiceCall("_calculate_mock_merkle_root", hashes, "none",
                Some(CalculateMockMerkleRoot(hashes)))

\* batch_compress_messages(messages), the messages given by their channel
\* kind and content
BatchCompressMessagesCall(kinds) ==
    LET messages == [i \in 1..Len(kinds) |->
                        NewMessage(config, i, kinds[i][1], kinds[i][2], now)]
    IN ServiceCall("batch_compress_messages", messages,
                   IF BatchCompressRaises(messages) THEN "type" ELSE "none",
                   IF BatchCompressRaises(messages) THEN None
                   ELSE Some(BatchCompressMessages(messages).merkle_root))

\* verify_compression_proof(proof, public_inputs) for a proof that names a
\* leaf, with the root of the batch `leaves` as public input
VerifyCompressionProof(leaf, leaves) ==
    ServiceCall("verify_compression_proof", [leaf |-> leaf, leaves |-> leaves],
                "none",
                Some(VerifyCompressionProofResult(
                         [leaf |-> leaf], <<CalculateMockMerkleRoot(leaves)>>)))

MerkleNext ==
    \/ \E hashes \in LeafLists : CalculateMockMerkleRootCall(hashes)
    \/ \E n \in 0..MaxLeaves : \E kinds \in [1..n -> ChannelKinds \X Contents] :
           BatchCompressMessagesCall(kinds)
    \/ \E leaf \in LeafHashes, leaves \in LeafLists \ {<<>>} :
           VerifyCompressionProof(leaf, leaves)

MerkleSpec == Init /\ [][MerkleNext]_vars

\* ---------------------------------------------------------------- decompress
\* decompress_message: retrieve_message_content(compressed_hash) on the
\* injected store, wrapped as "Failed to decompress message"; the result is
\* the __dict__ of the ChannelMessageContent rebuilt from the stored dict
DecompressOutcome(cfg, st, h) ==
    IF cfg.ipfs = "none" THEN [error |-> "no_ipfs", result |-> None]
    ELSE IF RetrieveJsonError(cfg, st, h) # "none"
         THEN [error |-> RetrieveJsonError(cfg, st, h), result |-> None]
    ELSE [error |-> "none", result |-> Some(JsonLoads(st[h]))]

\* decompress_message(compressed_hash)
DecompressMessage(h) ==
    ServiceCall("decompress_message", h,
                DecompressOutcome(config, storage, h).error,
                DecompressOutcome(config, storage, h).result)

\* a batching service over an enabled store
RoundTripInit == StoreInit /\ config.ipfs = "enabled"

RoundTripNext ==
    \/ Next
    \/ \E h \in StoreKeys : DecompressMessage(h)

RoundTripSpec == RoundTripInit /\ [][RoundTripNext]_vars

\* ---------------------------------------------------------------- claims
M == EffectiveMaxBatchSize(config)

Ids == 1..Len(handles)

\* number of emitted batches that hold the message with identity id
CountInEmitted(id) ==
    Cardinality({b \in 1..Len(emitted) :
        \E i \in 1..Len(emitted[b].compressed_accounts) :
            emitted[b].compressed_accounts[i].data.id = id})

BatchSize(b) == Len(emitted[b].compressed_accounts)

\* C1: size-triggered flush.  With batching on and no timer firing or
\* cleanup so far, n enqueues have produced exactly n div m batches, each of
\* m records, and n mod m records are pending.
C1_SizeTriggeredFlush ==
    (config.enable_batching /\ stats.fired = 0 /\ stats.cleanups = 0) =>
        /\ Len(emitted) = stats.enqueued \div M
        /\ \A b \in 1..Len(emitted) : BatchSize(b) = M
        /\ Len(batch_queue) = stats.enqueued % M

\* C2: max_batch_size is a hard upper bound on the open queue and on every
\* emitted batch.
C2_MaxBatchSizeBound ==
    /\ Len(batch_queue) <= M
    /\ \A b \in 1..Len(emitted) : BatchSize(b) <= M

\* C3: no silent drops.  A record whose enqueue returned normally (a commit
\* failure surfaced to the caller would instead be a raise) is in exactly one
\* emitted batch.
C3_NoSilentDrops ==
    \A id \in Ids :
        (handles[id].status = "returned" /\ handles[id].path # "single")
            => CountInEmitted(id) = 1

\* C4: order preservation.  In every emitted batch the i-th compressed
\* account is the i-th record enqueued into that batch: its hash is that
\* record's content hash and the records are consecutive enqueues in
\* enqueue order.
C4_OrderPreserved ==
    \A b \in 1..Len(emitted) :
        LET acc == emitted[b].compressed_accounts
        IN \A i \in 1..Len(acc) :
              /\ acc[i].hash = acc[i].data.content_hash
              /\ acc[i].data.id = acc[1].data.id + (i - 1)

\* C4 witness: a batch of two or more records with different hashes, the
\* later-enqueued one sorting first, has been emitted.
C4_Witness ==
    \E b \in 1..Len(emitted) :
        /\ BatchSize(b) >= 2
        /\ emitted[b].compressed_accounts[1].hash
               > emitted[b].compressed_accounts[2].hash

\* C5: time-triggered flush.  Once the timer armed for a record's enqueue
\* has fired, the record is in an emitted batch; a single enqueue followed
\* by its timer gives exactly one batch holding exactly that record.
C5_TimeTriggeredFlush ==
    /\ \A id \in Ids :
          (handles[id].path = "timer" /\ handles[id].status = "returned")
              => CountInEmitted(id) = 1
    /\ (stats.enqueued = 1 /\ stats.fired = 1 /\ handles[1].path = "timer")
          => (Len(emitted) = 1 /\ BatchSize(1) = 1)

\* C6: at most one timer is armed for the open batch, and none once the
\* batch has been flushed.
C6_OneTimerPerBatch ==
    /\ Len(timers) <= 1
    /\ (batch_queue = <<>> => timers = <<>>)

\* C7: an enqueue that leaves the batch below max_batch_size returns with
\* its record pending in the open batch.
C7_ReturnsWithBatchOpen ==
    \A id \in Ids :
        (handles[id].status = "returned" /\ handles[id].path \in {"timer", "joined"})
            => handles[id].pending_on_return

\* did the step just taken call compress_channel_message with a content the
\* injected store cannot put?
StorePutFailed ==
    /\ stats'.calls = stats.calls + 1
    /\ config.ipfs # "none"
    /\ (config.ipfs = "disabled" \/ last_call' = Some("bytes"))

\* C8: a failed store put raises to the caller and leaves batch_queue and
\* last_batch_result (and every record handle) as they were.
C8_StorageFailureSurfaced ==
    [][StorePutFailed =>
          /\ stats'.raised = stats.raised + 1
          /\ batch_queue' = batch_queue
          /\ last_batch_result' = last_batch_result
          /\ handles' = handles]_vars

\* C8 witness: a put failed on an enabled store while records were pending
\* and a batch had already been committed.
C8_Witness ==
    /\ config.ipfs = "enabled"
    /\ stats.raised > 0
    /\ last_call = Some("bytes")
    /\ batch_queue # <<>>
    /\ last_batch_result # None

\* did the step just taken run batch_compress_messages and fail?
ProcessFailed ==
    /\ Len(attempts') = Len(attempts) + 1
    /\ ~attempts'[Len(attempts')].ok

\* C9: a failed batch is reported to the caller, keeps all its records and
\* leaves last_batch_result unchanged.
C9_FailedCommitPreservesState ==
    [][ProcessFailed =>
          /\ stats'.raised = stats.raised + 1
          /\ batch_queue' = attempts'[Len(attempts')].messages
          /\ last_batch_result' = last_batch_result]_vars

\* C10: after a failed attempt on a batch, every later attempt on it is for
\* the same Merkle root.
C10_RootStableUnderRetry ==
    \A i \in 1..Len(attempts) : \A j \in i..Len(attempts) :
        (~attempts[i].ok /\ \A k \in i..j : k = j \/ ~attempts[k].ok) =>
            CalculateMockMerkleRoot(
                [n \in 1..Len(attempts[j].messages) |->
                    attempts[j].messages[n].content_hash])
          = CalculateMockMerkleRoot(
                [n \in 1..Len(attempts[i].messages) |->
                    attempts[i].messages[n].content_hash])

\* record identities of the i-th flush attempt / of the open queue
AttemptIds(i) == {attempts[i].messages[n].id : n \in 1..Len(attempts[i].messages)}

QueueIds == {batch_queue[n].id : n \in 1..Len(batch_queue)}

\* C11: sealed batches are immutable and never reopen.  Two flush attempts
\* are on the same record set (a retry) or on disjoint ones, and no record of
\* a batch that a flush was attempted on is in the open queue, where later
\* enqueues would join it.
C11_SealedBatchesImmutable ==
    /\ \A i \in 1..Len(attempts) : \A j \in 1..Len(attempts) :
          AttemptIds(i) = AttemptIds(j) \/ AttemptIds(i) \cap AttemptIds(j) = {}
    /\ \A i \in 1..Len(attempts) : AttemptIds(i) \cap QueueIds = {}

\* record identities in an emitted batch
BatchIds(batch) ==
    {batch.compressed_accounts[i].data.id : i \in 1..Len(batch.compressed_accounts)}

\* C12: flush excludes enqueue.  In every step, a record that leaves the
\* queue is in the batch emitted by that step, and a batch emitted by the
\* step holds no record of an earlier batch.
C12_FlushExcludesEnqueue ==
    [][/\ \A id \in QueueIds :
             ~InQueue(batch_queue', id) =>
                 /\ Len(emitted') = Len(emitted) + 1
                 /\ id \in BatchIds(emitted'[Len(emitted')])
       /\ Len(emitted') = Len(emitted) + 1 =>
             \A id \in BatchIds(emitted'[Len(emitted')]) : CountInEmitted(id) = 0
      ]_vars

\* C12 witness: a size-triggered flush of two records ran while an enqueue
\* was suspended in its sleep, and records enqueued after it are pending
\* with two sleeps outstanding.
C12_Witness ==
    /\ \E b \in 1..Len(emitted) : BatchSize(b) >= 2
    /\ Len(timers) = 2
    /\ batch_queue # <<>>

\* did the step just taken run cleanup() with records pending?
CleanupReturned == stats'.cleanups = stats.cleanups + 1

\* C13: shutdown flushes pending records.  When cleanup returns, the queue
\* is empty and every record accepted so far is in an emitted batch.
C13_ShutdownFlushesPending ==
    [][CleanupReturned =>
          /\ batch_queue' = <<>>
          /\ \A id \in Ids :
                \E b \in 1..Len(emitted') : id \in BatchIds(emitted'[b])]_vars

\* did the step just taken call compress_channel_message after a cleanup()?
EnqueueAfterCleanup == stats.cleanups > 0 /\ stats'.calls = stats.calls + 1

\* C14: shutdown is terminal for enqueue.  A compress_channel_message made
\* after cleanup raises to its caller and leaves the queue empty.
C14_ShutdownTerminal ==
    [][EnqueueAfterCleanup =>
          /\ stats'.raised = stats.raised + 1
          /\ batch_queue = <<>>
          /\ batch_queue' = batch_queue]_vars

\* C15: with batching disabled the queue is always empty and every record
\* whose enqueue has returned is alone in exactly one emitted batch.
C15_UnbatchedSingleton ==
    ~config.enable_batching =>
        /\ batch_queue = <<>>
        /\ \A id \in Ids :
              handles[id].status = "returned" =>
                  /\ CountInEmitted(id) = 1
                  /\ \A b \in 1..Len(emitted) :
                        id \in BatchIds(emitted[b]) => BatchIds(emitted[b]) = {id}

\* the queue half of C15 alone
QueueEmptyWhenUnbatched == ~config.enable_batching => batch_queue = <<>>

\* is the step just taken a timer firing or a cleanup (no new call of
\* compress_channel_message) that found the queue empty?
EmptyFlush == batch_queue = <<>> /\ stats'.calls = stats.calls

\* C16: an empty flush is a no-op.  A timer firing or cleanup on an empty
\* queue emits no batch, makes no attempt, and leaves batch_queue,
\* batch_timer and last_batch_result as they were.
C16_EmptyFlushNoOp ==
    [][EmptyFlush =>
          /\ emitted' = emitted
          /\ attempts' = attempts
          /\ batch_queue' = batch_queue
          /\ batch_timer' = batch_timer
          /\ last_batch_result' = last_batch_result]_vars

\* C16 witness: the only batch is a size-triggered one of two records, and
\* the sleep armed by the first of them has since ended on the empty queue.
C16_Witness ==
    /\ M = 2
    /\ stats.enqueued = 2
    /\ stats.fired = 1
    /\ stats.cleanups = 0
    /\ Len(emitted) = 1
    /\ BatchSize(1) = 2
    /\ batch_queue = <<>>
    /\ last_batch_result # None

\* the put methods of the store
PutOps == {"store_file", "store_json", "store_message_content"}

\* did the step just taken complete the second of two successive successful
\* puts by the methods in ops, with the same argument?
SuccessivePuts(ops) ==
    /\ last_op # None
    /\ last_op' # None
    /\ last_op[1].op \in ops
    /\ last_op'[1].op = last_op[1].op
    /\ last_op'[1].arg = last_op[1].arg
    /\ last_op[1].error = "none"
    /\ last_op'[1].error = "none"

\* C17: idempotent storage.  The second of two successive puts of the same
\* payload, by store_file, store_json or store_message_content, returns the
\* key the first returned and leaves the store as it was.
C17_IdempotentPut ==
    [][SuccessivePuts(PutOps) =>
          /\ last_op'[1].result = last_op[1].result
          /\ storage' = storage]_vars

\* the same for store_file and store_json alone
IdempotentStoreFileAndJson ==
    [][SuccessivePuts({"store_file", "store_json"}) =>
          /\ last_op'[1].result = last_op[1].result
          /\ storage' = storage]_vars

LookupOps == {"retrieve_json", "retrieve_file", "pin_content", "unpin_content"}

\* did the step just taken leave a call of one of the lookup methods on an
\* enabled store as the latest call?
LookupDone ==
    /\ config.ipfs = "enabled"
    /\ last_op' # None
    /\ last_op'[1].op \in LookupOps

\* C19: on an enabled store retrieve_json, retrieve_file, pin_content and
\* unpin_content raise "Content not found" for a key that is not stored and
\* leave the store unchanged; pin_content and unpin_content return normally
\* for a stored key, also leaving the store unchanged.
C19_NotFound ==
    [][LookupDone =>
          /\ storage' = storage
          /\ (last_op'[1].arg \notin DOMAIN storage
                 => last_op'[1].error = "not_found")
          /\ ((last_op'[1].arg \in DOMAIN storage
                  /\ last_op'[1].op \in {"pin_content", "unpin_content"})
                 => last_op'[1].error = "none")]_vars

\* C19 witness: pin_content has just raised "Content not found" on a store
\* that holds other content.
C19_Witness ==
    /\ config.ipfs = "enabled"
    /\ last_op # None
    /\ last_op[1].op = "pin_content"
    /\ last_op[1].error = "not_found"
    /\ storage # <<>>

\* C20: content_exists never raises, and returns True exactly for the keys
\* of earlier successful puts.
C20_ExistsNeverFails ==
    (last_op # None /\ last_op[1].op = "content_exists") =>
        /\ last_op[1].error = "none"
        /\ last_op[1].result = Some(last_op[1].arg \in DOMAIN first_put)

\* C20 witness: content_exists has returned True.
C20_Witness ==
    /\ last_op # None
    /\ last_op[1].op = "content_exists"
    /\ last_op[1].result = Some(TRUE)

\* every method of the store that the ObjectStore capability set names
StoreOps == PutOps \cup LookupOps \cup {"content_exists", "get_node_info"}

\* C21 as stated: on a disabled store every operation raises the "disabled"
\* error and the store stays empty.
C21_DisabledFailsAll ==
    (config.ipfs = "disabled" /\ last_op # None /\ last_op[1].op \in StoreOps) =>
        /\ last_op[1].error = "disabled"
        /\ storage = <<>>

\* C21, amended: on a disabled store every operation but content_exists
\* raises the "disabled" error, content_exists returns False without
\* raising, and the store stays empty.
C21_DisabledFailsAllButExists ==
    (config.ipfs = "disabled" /\ last_op # None /\ last_op[1].op \in StoreOps) =>
        /\ (last_op[1].op # "content_exists" => last_op[1].error = "disabled")
        /\ (last_op[1].op = "content_exists" =>
               last_op[1].error = "none" /\ last_op[1].result = Some(FALSE))
        /\ storage = <<>>

\* C21 witness: store_file has just raised on a disabled store.
C21_Witness ==
    /\ config.ipfs = "disabled"
    /\ last_op # None
    /\ last_op[1].op = "store_file"
    /\ last_op[1].error = "disabled"

\* did the step just taken call compress_channel_message with a str content
\* on a service whose injected store is disabled?
EnqueueOnDisabledStore ==
    /\ config.ipfs = "disabled"
    /\ stats'.calls = stats.calls + 1
    /\ last_call' = Some("str")

\* C22: with the injected store disabled, compress_channel_message does not
\* raise and accepts the record.
C22_EnqueueWithStorageDisabled ==
    [][EnqueueOnDisabledStore =>
          /\ stats'.raised = stats.raised
          /\ Len(handles') = Len(handles) + 1]_vars

\* the messages in the open queue and in every flush attempt and emitted batch
KnownMessages ==
    {batch_queue[n] : n \in 1..Len(batch_queue)}
    \cup UNION {{attempts[i].messages[n] : n \in 1..Len(attempts[i].messages)} :
                   i \in 1..Len(attempts)}
    \cup UNION {{emitted[b].compressed_accounts[n].data :
                    n \in 1..Len(emitted[b].compressed_accounts)} :
                   b \in 1..Len(emitted)}

\* C23: stored before sealed.  With an enabled store every queued, attempted
\* or emitted record has an ipfs_hash that is a key of the store.
C23_StoredBeforeSealed ==
    config.ipfs = "enabled" =>
        \A m \in KnownMessages : m.ipfs_hash \in DOMAIN storage

\* C23 witness: an enabled store, a batch of two records emitted and a
\* further record pending.
C23_Witness ==
    /\ config.ipfs = "enabled"
    /\ \E b \in 1..Len(emitted) : BatchSize(b) >= 2
    /\ batch_queue # <<>>

\* C24: every record's ipfs_hash equals its content_hash.
C24_ExternalRefIsContentHash ==
    \A m \in KnownMessages : m.ipfs_hash = m.content_hash

\* the same for the local-hash fallback alone (no store injected)
ExternalRefIsContentHashWithoutStore ==
    config.ipfs = "none" => \A m \in KnownMessages : m.ipfs_hash = m.content_hash

\* C25: computing a root over no leaves fails and returns no root.
C25_EmptyInputRejected ==
    (/\ last_op # None
     /\ last_op[1].op \in {"_calculate_mock_merkle_root", "batch_compress_messages"}
     /\ last_op[1].arg = <<>>)
        => (last_op[1].error = "empty_input" /\ last_op[1].result = None)

\* did the step just taken complete the second of two successive calls of
\* _calculate_mock_merkle_root, on different leaf lists?
RootsOfDifferentLists ==
    /\ last_op # None
    /\ last_op' # None
    /\ last_op[1].op = "_calculate_mock_merkle_root"
    /\ last_op'[1].op = "_calculate_mock_merkle_root"
    /\ last_op'[1].arg # last_op[1].arg

\* C26: Merkle distinctness.  Leaf lists that differ, in content or only in
\* order, have different roots.
C26_MerkleDistinctness ==
    [][RootsOfDifferentLists => last_op'[1].result # last_op[1].result]_vars

\* the same for lists that differ as multisets of leaves
DistinctRootsUpToOrder ==
    [][(RootsOfDifferentLists /\ Sorted(last_op'[1].arg) # Sorted(last_op[1].arg))
          => last_op'[1].result # last_op[1].result]_vars

\* C27: verify_compression_proof returns True for a leaf of the batch
\* whose root is the public input, and False for a leaf that is not in it.
C27_ProofVerification ==
    (last_op # None /\ last_op[1].op = "verify_compression_proof") =>
        last_op[1].result =
            Some(\E i \in 1..Len(last_op[1].arg.leaves) :
                     last_op[1].arg.leaves[i] = last_op[1].arg.leaf)

C29_StoreRetrieveRoundTrip ==
    config.ipfs = "enabled" =>
        /\ \A c \in Contents, ts \in 1..MaxNow :
              LET d == MessageContentJson(c, ts)
                  k == StoreJsonKey(d)
              IN /\ k \in DOMAIN first_put =>
                       /\ RetrieveJsonError(config, storage, k) = "none"
                       /\ JsonLoads(storage[k]) = d
                 /\ (/\ last_op # None
                     /\ last_op[1].op = "retrieve_json"
                     /\ last_op[1].arg = k
                     /\ k \in DOMAIN first_put) => last_op[1].result = Some(d)
        /\ \A c \in Contents :
              LET k == StoreFileKey(c)
              IN /\ k \in DOMAIN first_put =>
                       /\ RetrieveFileError(config, storage, k) = "none"
                       /\ RetrieveFileResult(storage[k])
                              = [kind |-> "bytes", content |-> c]
                 /\ (/\ last_op # None
                     /\ last_op[1].op = "retrieve_file"
                     /\ last_op[1].arg = k
                     /\ k \in DOMAIN first_put) =>
                        last_op[1].result = Some([kind |-> "bytes", content |-> c])

\* C29 witness: retrieve_json has just returned the value stored with
\* timestamp 1 for "a", from a store that holds three or more entries.
C29_Witness ==
    /\ last_op # None
    /\ last_op[1].op = "retrieve_json"
    /\ last_op[1].result = Some(MessageContentJson("a", 1))
    /\ Cardinality(DOMAIN storage) >= 3

\* is h the hash of a compressed account that compress_channel_message has
\* returned to its caller?
ReturnedAccountHash(h) ==
    \E m \in KnownMessages :
        /\ handles[m.id].status = "returned"
        /\ CompressedAccountOf(m).hash = h

\* a decompress_message call is the step that records its outcome
DecompressStep ==
    /\ last_op' # last_op
    /\ last_op' # None
    /\ last_op'[1].op = "decompress_message"

\* C30: compress/decompress round trip.  With an enabled store,
\* decompress_message on the hash of a compressed account that
\* compress_channel_message has returned succeeds and gives back a content
\* whose content hash is that hash, i.e. the content that was compressed.
C30_CompressDecompressRoundTrip ==
    [][(/\ DecompressStep
        /\ config.ipfs = "enabled"
        /\ ReturnedAccountHash(last_op'[1].arg))
          => /\ last_op'[1].error = "none"
             /\ CreateContentHash(last_op'[1].result[1].content)
                    = last_op'[1].arg]_vars

\* decompress_message on the ipfs_hash of an accepted record gives the
\* record's content back
DecompressByIpfsHash ==
    [][(DecompressStep /\ config.ipfs = "enabled")
          => \A m \in KnownMessages :
                m.ipfs_hash = last_op'[1].arg =>
                    /\ last_op'[1].error = "none"
                    /\ CreateContentHash(last_op'[1].result[1].content)
                           = m.content_hash]_vars

\* a decompress_message call on a stored ipfs_hash has succeeded
DecompressByIpfsHashDone ==
    /\ last_op # None
    /\ last_op[1].op = "decompress_message"
    /\ last_op[1].error = "none"

====
